---- MODULE Spec2Model ----
(***************************************************************************)
(* Model of the LLM adapter of src/main.py: construction, provider         *)
(* selection (set_api), the call path with failover on rate-limit          *)
(* failures (call_llm) and the two provider clients with bounded retry     *)
(* and exponential backoff (_call_deepseek_api, _call_qwen_api); and of    *)
(* the function-calling agent on top of it (process_query with             *)
(* _parse_function_call and _execute_function).                            *)
(*                                                                         *)
(* Texts (failure descriptions, model responses) are sequences of          *)
(* one-character strings, so that str(e).lower() and the "in" substring    *)
(* tests of call_llm are computed rather than assumed.                     *)
(***************************************************************************)
EXTENDS Integers, Sequences, FiniteSets, TLC

VARIABLES
    config,             \* LLMConfig handed to the constructor
    current_api,        \* LLMAdapter.current_api
    deepseek_client,    \* LLMAdapter.deepseek_client ("None" or "OpenAI")
    deepseek_available, \* LLMAdapter.deepseek_available
    qwen_available,     \* LLMAdapter.qwen_available
    pc,                 \* position of the single thread of control
    op,                 \* operation running or last completed
    arg,                \* argument of that operation (set_api's api_name)
    pre,                \* adapter fields when that operation started
    trace,              \* provider-client invocations of the running/last call_llm
    ret,                \* how the last operation ended
    pq                  \* the process_query that is running or was the last operation

vars == <<config, current_api, deepseek_client, deepseek_available,
          qwen_available, pc, op, arg, pre, trace, ret, pq>>

----------------------------------------------------------------------------
(* Bounds *)

\* largest max_retries a configuration is given
MaxRetries == 2

\* largest max_retries of a provider client run on its own
MaxClientRetries == 4

----------------------------------------------------------------------------
(* Texts *)

Txt_rate_limit == <<"r","a","t","e"," ","l","i","m","i","t">>
Txt_quota      == <<"q","u","o","t","a">>
Txt_exceeded   == <<"e","x","c","e","e","d","e","d">>
Txt_429        == <<"4","2","9">>

\* failure descriptions a backend request can produce
FailRateLimit == <<"R","a","t","e"," ","L","i","m","i","t"," ","h","i","t">>
FailQuota     == <<"Q","u","o","t","a"," ","u","s","e","d"," ","u","p">>
FailExceeded  == <<"M","a","x"," ","r","e","t","r","i","e","s"," ","e","x","c","e","e","d","e","d">>
Fail429       == <<"E","r","r","o","r"," ","c","o","d","e",":"," ","4","2","9">>
FailTimeout   == <<"R","e","q","u","e","s","t"," ","t","i","m","e","d"," ","o","u","t">>

BackendFailures == {FailRateLimit, FailQuota, FailExceeded, Fail429, FailTimeout}

\* the marker of lines 234, 236
Marker ==
    <<"F","U","N","C","T","I","O","N","_","C","A","L","L",":">>

Newline ==
    <<"\n">>

\* JSON texts that follow the marker in the responses below

JsonCallBeijing ==
    <<"{","\"","n","a","m","e","\"",":","\"","g","e","t","_","w","e","a",
      "t","h","e","r","\"",",","\"","a","r","g","u","m","e","n","t","s",
      "\"",":","{","\"","c","i","t","y","\"",":","\"","b","e","i","j","i",
      "n","g","\"","}","}">>

JsonCallShenzhen ==
    <<"{","\"","n","a","m","e","\"",":","\"","g","e","t","_","w","e","a",
      "t","h","e","r","\"",",","\"","a","r","g","u","m","e","n","t","s",
      "\"",":","{","\"","c","i","t","y","\"",":","\"","S","h","e","n","z",
      "h","e","n","\"","}","}">>

JsonCallParis ==
    <<"{","\"","n","a","m","e","\"",":","\"","g","e","t","_","w","e","a",
      "t","h","e","r","\"",",","\"","a","r","g","u","m","e","n","t","s",
      "\"",":","{","\"","c","i","t","y","\"",":","\"","p","a","r","i","s",
      "\"","}","}">>

JsonCallTime ==
    <<"{","\"","n","a","m","e","\"",":","\"","g","e","t","_","t","i","m",
      "e","\"",",","\"","a","r","g","u","m","e","n","t","s","\"",":","{",
      "}","}">>

JsonCallTown ==
    <<"{","\"","n","a","m","e","\"",":","\"","g","e","t","_","w","e","a",
      "t","h","e","r","\"",",","\"","a","r","g","u","m","e","n","t","s",
      "\"",":","{","\"","t","o","w","n","\"",":","\"","b","e","i","j","i",
      "n","g","\"","}","}">>

JsonCallNoArgs ==
    <<"{","\"","n","a","m","e","\"",":","\"","g","e","t","_","w","e","a",
      "t","h","e","r","\"",",","\"","a","r","g","u","m","e","n","t","s",
      "\"",":","{","}","}">>

JsonNoFields ==
    <<"{","\"","c","i","t","y","\"",":","\"","b","e","i","j","i","n","g",
      "\"","}">>

JsonList ==
    <<"[","1","]">>

JsonMalformed ==
    <<"{","\"","n","a","m","e","\"",":">>

JsonEmptyDict ==
    <<"{","}">>

JsonListName ==
    <<"{","\"","n","a","m","e","\"",":","[","\"","g","e","t","_","w","e",
      "a","t","h","e","r","\"","]",",","\"","a","r","g","u","m","e","n","t",
      "s","\"",":","{","}","}">>

\* responses with a FUNCTION_CALL marker

\* text, the marker, a call of get_weather, and a second line
RespCall ==
    <<"h","e","l","l","o"," ","F","U","N","C","T","I","O","N","_","C","A",
      "L","L",":"," ","{","\"","n","a","m","e","\"",":","\"","g","e","t",
      "_","w","e","a","t","h","e","r","\"",",","\"","a","r","g","u","m","e",
      "n","t","s","\"",":","{","\"","c","i","t","y","\"",":","\"","b","e",
      "i","j","i","n","g","\"","}","}","\n","e","x","t","r","a">>

\* the marker, a line break, and a call of get_weather on the next line
RespCallNextLine ==
    <<"F","U","N","C","T","I","O","N","_","C","A","L","L",":","\n","{","\"",
      "n","a","m","e","\"",":","\"","g","e","t","_","w","e","a","t","h","e",
      "r","\"",",","\"","a","r","g","u","m","e","n","t","s","\"",":","{",
      "\"","c","i","t","y","\"",":","\"","S","h","e","n","z","h","e","n",
      "\"","}","}">>

\* one line with the marker twice
RespTwoMarkers ==
    <<"F","U","N","C","T","I","O","N","_","C","A","L","L",":"," ","{","\"",
      "n","a","m","e","\"",":","\"","g","e","t","_","w","e","a","t","h","e",
      "r","\"",",","\"","a","r","g","u","m","e","n","t","s","\"",":","{",
      "\"","c","i","t","y","\"",":","\"","p","a","r","i","s","\"","}","}",
      " ","F","U","N","C","T","I","O","N","_","C","A","L","L",":"," ","x">>

\* a call of a function that is not registered
RespUnknownFn ==
    <<"F","U","N","C","T","I","O","N","_","C","A","L","L",":"," ","{","\"",
      "n","a","m","e","\"",":","\"","g","e","t","_","t","i","m","e","\"",
      ",","\"","a","r","g","u","m","e","n","t","s","\"",":","{","}","}">>

\* a call of get_weather with a keyword it does not take
RespWrongArg ==
    <<"F","U","N","C","T","I","O","N","_","C","A","L","L",":"," ","{","\"",
      "n","a","m","e","\"",":","\"","g","e","t","_","w","e","a","t","h","e",
      "r","\"",",","\"","a","r","g","u","m","e","n","t","s","\"",":","{",
      "\"","t","o","w","n","\"",":","\"","b","e","i","j","i","n","g","\"",
      "}","}">>

\* a call of get_weather without its argument
RespMissingArg ==
    <<"F","U","N","C","T","I","O","N","_","C","A","L","L",":"," ","{","\"",
      "n","a","m","e","\"",":","\"","g","e","t","_","w","e","a","t","h","e",
      "r","\"",",","\"","a","r","g","u","m","e","n","t","s","\"",":","{",
      "}","}">>

\* a JSON object without "name" and "arguments"
RespNoFields ==
    <<"F","U","N","C","T","I","O","N","_","C","A","L","L",":"," ","{","\"",
      "c","i","t","y","\"",":","\"","b","e","i","j","i","n","g","\"","}">>

\* a JSON array
RespList ==
    <<"F","U","N","C","T","I","O","N","_","C","A","L","L",":"," ","[","1",
      "]">>

\* text that is not JSON
RespMalformed ==
    <<"F","U","N","C","T","I","O","N","_","C","A","L","L",":"," ","{","\"",
      "n","a","m","e","\"",":">>

\* the empty JSON object
RespEmptyDict ==
    <<"F","U","N","C","T","I","O","N","_","C","A","L","L",":"," ","{","}">>

\* a call whose "name" is a JSON array
RespListName ==
    <<"F","U","N","C","T","I","O","N","_","C","A","L","L",":"," ","{","\"",
      "n","a","m","e","\"",":","[","\"","g","e","t","_","w","e","a","t","h",
      "e","r","\"","]",",","\"","a","r","g","u","m","e","n","t","s","\"",
      ":","{","}","}">>

\* the marker in lower case
RespLowerMarker ==
    <<"f","u","n","c","t","i","o","n","_","c","a","l","l",":"," ","{","\"",
      "n","a","m","e","\"",":","\"","g","e","t","_","w","e","a","t","h","e",
      "r","\"",",","\"","a","r","g","u","m","e","n","t","s","\"",":","{",
      "\"","c","i","t","y","\"",":","\"","b","e","i","j","i","n","g","\"",
      "}","}">>

\* what get_weather returns (lines 16-33)

WeatherBeijing ==
    <<"{","\"","l","o","c","a","t","i","o","n","\"",":"," ","\"","B","e",
      "i","j","i","n","g","\"",","," ","\"","t","e","m","p","e","r","a","t",
      "u","r","e","\"",":"," ","{","\"","c","u","r","r","e","n","t","\"",
      ":"," ","3","2",","," ","\"","l","o","w","\"",":"," ","2","6",","," ",
      "\"","h","i","g","h","\"",":"," ","3","5","}",","," ","\"","r","a",
      "i","n","_","p","r","o","b","a","b","i","l","i","t","y","\"",":"," ",
      "1","0",","," ","\"","h","u","m","i","d","i","t","y","\"",":"," ","4",
      "0","}">>

WeatherShenzhen ==
    <<"{","\"","l","o","c","a","t","i","o","n","\"",":"," ","\"","S","h",
      "e","n","z","h","e","n","\"",","," ","\"","t","e","m","p","e","r","a",
      "t","u","r","e","\"",":"," ","{","\"","c","u","r","r","e","n","t",
      "\"",":"," ","2","8",","," ","\"","l","o","w","\"",":"," ","2","4",
      ","," ","\"","h","i","g","h","\"",":"," ","3","1","}",","," ","\"",
      "r","a","i","n","_","p","r","o","b","a","b","i","l","i","t","y","\"",
      ":"," ","9","0",","," ","\"","h","u","m","i","d","i","t","y","\"",":",
      " ","8","5","}">>

WeatherUnavailable ==
    <<"{","\"","e","r","r","o","r","\"",":"," ","\"","W","e","a","t","h",
      "e","r"," ","U","n","a","v","a","i","l","a","b","l","e","\"","}">>

CityBeijing ==
    <<"b","e","i","j","i","n","g">>

CityShenzhen ==
    <<"s","h","e","n","z","h","e","n">>

KeyCity ==
    <<"c","i","t","y">>

KeyTown ==
    <<"t","o","w","n">>

ValBeijing ==
    <<"b","e","i","j","i","n","g">>

ValShenzhen ==
    <<"S","h","e","n","z","h","e","n">>

ValParis ==
    <<"p","a","r","i","s">>

NameGetWeather ==
    <<"g","e","t","_","w","e","a","t","h","e","r">>

NameGetTime ==
    <<"g","e","t","_","t","i","m","e">>

\* str(None)
TxtNone ==
    <<"N","o","n","e">>

\* descriptions of the exceptions the interpreter raises in _execute_function

MsgNoGet ==
    <<"'","l","i","s","t","'"," ","o","b","j","e","c","t"," ","h","a","s",
      " ","n","o"," ","a","t","t","r","i","b","u","t","e"," ","'","g","e",
      "t","'">>

MsgUnhashable ==
    <<"u","n","h","a","s","h","a","b","l","e"," ","t","y","p","e",":"," ",
      "'","l","i","s","t","'">>

MsgUnexpectedKeyword ==
    <<"g","e","t","_","w","e","a","t","h","e","r","(",")"," ","g","o","t",
      " ","a","n"," ","u","n","e","x","p","e","c","t","e","d"," ","k","e",
      "y","w","o","r","d"," ","a","r","g","u","m","e","n","t"," ","'">>

MsgMissingCity ==
    <<"g","e","t","_","w","e","a","t","h","e","r","(",")"," ","m","i","s",
      "s","i","n","g"," ","1"," ","r","e","q","u","i","r","e","d"," ","p",
      "o","s","i","t","i","o","n","a","l"," ","a","r","g","u","m","e","n",
      "t",":"," ","'","c","i","t","y","'">>

Quote ==
    <<"'">>

\* line 261
MsgUnknownFunction ==
    <<"U+672A","U+77E5","U+51FD","U+6570",":"," ">>

\* json.dumps({"error": ...}) around the description (lines 258, 261)
JsonErrorOpen ==
    <<"{","\"","e","r","r","o","r","\"",":"," ","\"">>

JsonErrorClose ==
    <<"\"","}">>

\* line 290
MsgApology ==
    <<"U+62B1","U+6B49","U+FF0C","U+5904","U+7406","U+8BF7","U+6C42",
      "U+65F6","U+51FA","U+9519",":"," ">>

\* the user text of a query
UserQuery ==
    <<"W","h","a","t","'","s"," ","t","h","e"," ","w","e","a","t","h","e",
      "r"," ","i","n"," ","S","h","e","n","z","h","e","n","?">>

\* texts a successful request returns
RespA == <<"S","u","n","n","y">>
RespB == <<"R","a","i","n">>

Responses ==
    {RespA, RespB, RespCall, RespCallNextLine, RespTwoMarkers, RespUnknownFn,
     RespWrongArg, RespMissingArg, RespNoFields, RespList, RespMalformed,
     RespEmptyDict, RespListName, RespLowerMarker}

\* messages of the exceptions the source itself raises; a character outside
\* ASCII is written as its code point, one element of the sequence
MsgNoApiInit == <<"U+6CA1","U+6709","U+53EF","U+7528","U+7684","L","L","M"," ","A","P","I">>
MsgNoApi     == <<"U+5F53","U+524D","U+6CA1","U+6709","U+53EF","U+7528","U+7684","L","L","M"," ","A","P","I">>
MsgDeepSeekExhausted == <<"D","e","e","p","S","e","e","k","U+91CD","U+8BD5","U+6B21","U+6570","U+7528","U+5C3D">>
MsgQwenExhausted     == <<"U+5343","U+95EE","A","P","I","U+91CD","U+8BD5","U+6B21","U+6570","U+7528","U+5C3D">>

\* str.lower() on the letters that occur in the texts above
UpperCase == <<"A","B","C","D","E","F","G","H","I","J","K","L","M",
               "N","O","P","Q","R","S","T","U","V","W","X","Y","Z">>
LowerCase == <<"a","b","c","d","e","f","g","h","i","j","k","l","m",
               "n","o","p","q","r","s","t","u","v","w","x","y","z">>

LowerChar(c) ==
    IF \E i \in 1..Len(UpperCase) : UpperCase[i] = c
    THEN LowerCase[CHOOSE i \in 1..Len(UpperCase) : UpperCase[i] = c]
    ELSE c

Lower(s) == [i \in 1..Len(s) |-> LowerChar(s[i])]

\* Python's  sub in s  on strings
Contains(s, sub) ==
    \E k \in 0..(Len(s) - Len(sub)) :
        \A i \in 1..Len(sub) : s[k + i] = sub[i]

\* IsRateLimitError without the .lower() of lines 136, 150
IsRateLimitError_NoLower(msg) ==
    \/ Contains(msg, Txt_rate_limit)
    \/ Contains(msg, Txt_quota)
    \/ Contains(msg, Txt_exceeded)
    \/ Contains(msg, Txt_429)

\* the test of lines 136-137 and 150-151 on the failure's description
IsRateLimitError(msg) ==
    LET error_msg == Lower(msg)
    IN  \/ Contains(error_msg, Txt_rate_limit)
        \/ Contains(error_msg, Txt_quota)
        \/ Contains(error_msg, Txt_exceeded)
        \/ Contains(error_msg, Txt_429)

----------------------------------------------------------------------------
(* Values *)

Providers == {"deepseek", "qwen"}

Other(api) == IF api = "deepseek" THEN "qwen" ELSE "deepseek"

\* credentials: the empty string and the default of config.py
ApiKeys == {"", " "}

\* truth value of a str in  if config.deepseek_api_key:
Truthy(key) == key # ""

\* an exception: where it was raised and its description
BackendError(msg) == [origin |-> "backend", msg |-> msg]
NoApiInitError    == [origin |-> "init", msg |-> MsgNoApiInit]
NoApiError        == [origin |-> "call_llm", msg |-> MsgNoApi]
ExhaustedError(api) ==
    [origin |-> "exhausted",
     msg |-> IF api = "deepseek" THEN MsgDeepSeekExhausted ELSE MsgQwenExhausted]

NoError == [origin |-> "none", msg |-> <<>>]

NoRet          == [kind |-> "none", flag |-> FALSE, origin |-> "none", text |-> <<>>]
RetText(t)     == [kind |-> "return", flag |-> FALSE, origin |-> "none", text |-> t]
RetBool(b)     == [kind |-> "return", flag |-> b, origin |-> "none", text |-> <<>>]
RetRaise(e)    == [kind |-> "raise", flag |-> FALSE, origin |-> e.origin, text |-> e.msg]

Available(api) == IF api = "deepseek" THEN deepseek_available ELSE qwen_available

Snapshot == [current_api |-> current_api,
             deepseek_available |-> deepseek_available,
             qwen_available |-> qwen_available]

PreAvailable(api) ==
    IF api = "deepseek" THEN pre.deepseek_available ELSE pre.qwen_available

----------------------------------------------------------------------------
(* Function calling: _parse_function_call, _execute_function, get_weather *)

SetMin(S) == CHOOSE x \in S : \A y \in S : x <= y
SetMax(S) == CHOOSE x \in S : \A y \in S : x >= y

\* the offsets at which sub occurs in s
Occurrences(s, sub) ==
    {k \in 0..(Len(s) - Len(sub)) : \A i \in 1..Len(sub) : s[k + i] = sub[i]}

\* s.split(sub)[0]
SplitHead(s, sub) ==
    IF Occurrences(s, sub) = {} THEN s
    ELSE SubSeq(s, 1, SetMin(Occurrences(s, sub)))

\* what follows the first occurrence of sub in s
SplitRest(s, sub) ==
    SubSeq(s, SetMin(Occurrences(s, sub)) + Len(sub) + 1, Len(s))

\* s.split(sub)[1], for s that contains sub
SplitSecond(s, sub) == SplitHead(SplitRest(s, sub), sub)

\* the characters str.strip() removes
Whitespace == {" ", "\n", "\t", "\r", "\f"}

\* s.strip()
Strip(s) ==
    LET keep == {i \in 1..Len(s) : s[i] \notin Whitespace}
    IN  IF keep = {} THEN <<>> ELSE SubSeq(s, SetMin(keep), SetMax(keep))

\* FuncCallStr without the cut at the first line break
FuncCallStr_NoLineSplit(response) ==
    Strip(SplitSecond(response, Marker))

\* FuncCallStr cutting at the first line break before anything is stripped
FuncCallStr_LineFirst(response) ==
    Strip(SplitHead(SplitSecond(response, Marker), Newline))

\* lines 236-237: the text handed to json.loads
FuncCallStr(response) ==
    Strip(SplitHead(Strip(SplitSecond(response, Marker)), Newline))

\* Python values of a parsed call: the value's type, its truth value, and for
\* a dict its "name" and "arguments" entries
NoName == [kind |-> "absent", text |-> <<>>]
NoArgs == [kind |-> "absent", items |-> <<>>]
StrName(text) == [kind |-> "str", text |-> text]
ListName == [kind |-> "list", text |-> <<>>]
DictArgs(items) == [kind |-> "dict", items |-> items]
PyNone == [kind |-> "None", truthy |-> FALSE, name |-> NoName, arguments |-> NoArgs]
PyList == [kind |-> "list", truthy |-> TRUE, name |-> NoName, arguments |-> NoArgs]
PyDict(size, name, arguments) ==
    [kind |-> "dict", truthy |-> size > 0, name |-> name, arguments |-> arguments]
JsonDecodeError ==
    [kind |-> "error", truthy |-> FALSE, name |-> NoName, arguments |-> NoArgs]

\* json.loads on the texts FuncCallStr yields for Responses; every other one
\* of them is not JSON
JsonLoads(str) ==
    CASE str = JsonCallBeijing ->
            PyDict(2, StrName(NameGetWeather),
                   DictArgs(<<[key |-> KeyCity, value |-> ValBeijing]>>))
      [] str = JsonCallShenzhen ->
            PyDict(2, StrName(NameGetWeather),
                   DictArgs(<<[key |-> KeyCity, value |-> ValShenzhen]>>))
      [] str = JsonCallParis ->
            PyDict(2, StrName(NameGetWeather),
                   DictArgs(<<[key |-> KeyCity, value |-> ValParis]>>))
      [] str = JsonCallTime -> PyDict(2, StrName(NameGetTime), DictArgs(<<>>))
      [] str = JsonCallTown ->
            PyDict(2, StrName(NameGetWeather),
                   DictArgs(<<[key |-> KeyTown, value |-> ValBeijing]>>))
      [] str = JsonCallNoArgs ->
            PyDict(2, StrName(NameGetWeather), DictArgs(<<>>))
      [] str = JsonNoFields -> PyDict(1, NoName, NoArgs)
      [] str = JsonList -> PyList
      [] str = JsonEmptyDict -> PyDict(0, NoName, NoArgs)
      [] str = JsonListName -> PyDict(2, ListName, DictArgs(<<>>))
      [] OTHER -> JsonDecodeError

\* FunctionCallingAgent._parse_function_call
ParseFunctionCall(response) ==
    IF Contains(response, Marker)
    THEN LET func_call == JsonLoads(FuncCallStr(response))
         IN  IF func_call.kind = "error" THEN PyNone ELSE func_call
    ELSE PyNone

\* get_weather (lines 15-33)
GetWeather(city) ==
    LET city_key == Lower(city)
    IN  IF city_key = CityBeijing THEN WeatherBeijing
        ELSE IF city_key = CityShenzhen THEN WeatherShenzhen
        ELSE WeatherUnavailable

\* the keys of AVAILABLE_FUNCTIONS (lines 35-37)
AvailableFunctions == {NameGetWeather}

\* an exception raised while _execute_function runs
ExecuteError(msg) == [origin |-> "execute", msg |-> msg]

\* json.dumps({"error": msg}, ensure_ascii=False); no description in the
\* model holds a character that JSON escapes
JsonDumpsError(msg) == JsonErrorOpen \o msg \o JsonErrorClose

\* how _execute_function ends: the text it returns or the exception it
\* raises, and how often it entered a registered callable
ExecReturn(text, entered) ==
    [raised |-> FALSE, error |-> NoError, result |-> text, entered |-> entered]
ExecRaise(e) ==
    [raised |-> TRUE, error |-> e, result |-> <<>>, entered |-> 0]

\* line 253 for get_weather: binding **func_args to (city), then the body
CallGetWeather(func_args) ==
    LET bad == {i \in 1..Len(func_args) : func_args[i].key # KeyCity}
    IN  IF bad # {}
        THEN ExecReturn(JsonDumpsError(MsgUnexpectedKeyword
                            \o func_args[SetMin(bad)].key \o Quote), 0)
        ELSE IF func_args = <<>>
        THEN ExecReturn(JsonDumpsError(MsgMissingCity), 0)
        ELSE ExecReturn(GetWeather(func_args[1].value), 1)

\* ExecuteFunction raising for a name that is not registered
ExecuteFunction_Raises(function_call) ==
    IF function_call.kind # "dict"
    THEN ExecRaise(ExecuteError(MsgNoGet))
    ELSE LET func_name == function_call.name
             func_args == function_call.arguments.items
         IN  IF func_name.kind = "list"
             THEN ExecRaise(ExecuteError(MsgUnhashable))
             ELSE IF func_name.kind = "str"
                     /\ func_name.text \in AvailableFunctions
             THEN CallGetWeather(func_args)
             ELSE ExecRaise(ExecuteError(MsgUnknownFunction \o
                          (IF func_name.kind = "absent" THEN TxtNone
                           ELSE func_name.text)))

\* FunctionCallingAgent._execute_function
ExecuteFunction(function_call) ==
    IF function_call.kind # "dict"
    THEN ExecRaise(ExecuteError(MsgNoGet))
    ELSE LET func_name == function_call.name
             func_args == function_call.arguments.items
         IN  IF func_name.kind = "list"
             THEN ExecRaise(ExecuteError(MsgUnhashable))
             ELSE IF func_name.kind = "str"
                     /\ func_name.text \in AvailableFunctions
             THEN CallGetWeather(func_args)
             ELSE ExecReturn(
                      JsonDumpsError(MsgUnknownFunction \o
                          (IF func_name.kind = "absent" THEN TxtNone
                           ELSE func_name.text)), 0)

----------------------------------------------------------------------------
(* process_query: prompts and the record of one query *)

\* _build_function_calling_prompt and the f-string of lines 275-280, as the
\* values they embed
InitialPrompt(user_query) ==
    [prompt |-> "initial", user_query |-> user_query,
     function_call |-> PyNone, function_result |-> <<>>]
FollowUpPrompt(user_query, function_call, function_result) ==
    [prompt |-> "follow_up", user_query |-> user_query,
     function_call |-> function_call, function_result |-> function_result]

\* lines 268, 282: the messages of one request
Messages(content) == <<[role |-> "user", content |-> content]>>

\* no query: phase of process_query, the messages of each call_llm it made,
\* the first response, whether the marker was found and the text given to
\* json.loads, the parsed call, the function's result, the numbers of
\* _execute_function calls, of entries into a registered callable, of
\* call_llm calls and of backend attempts, and the exception caught
NoQuery ==
    [phase |-> "none", requests |-> <<>>, response |-> <<>>,
     triggered |-> FALSE, func_call_str |-> <<>>, function_call |-> PyNone,
     function_result |-> <<>>, executes |-> 0, entered |-> 0, calls |-> 0,
     attempts |-> 0, error |-> NoError]

\* the record after one more backend attempt
CountAttempt ==
    IF op = "process_query" THEN [pq EXCEPT !.attempts = @ + 1] ELSE pq

\* where control goes when call_llm ends
ReturnPc(operation) == IF operation = "process_query" THEN "agent" ELSE "idle"

----------------------------------------------------------------------------
(* Construction *)

Init ==
    /\ config \in [deepseek_api_key : ApiKeys, qwen_api_key : ApiKeys,
                   max_retries : 0..MaxRetries]
    /\ current_api = "auto"
    /\ deepseek_client = "None"
    /\ deepseek_available = FALSE
    /\ qwen_available = FALSE
    /\ pc = "new"
    /\ op = "none"
    /\ arg = "none"
    /\ pre = [current_api |-> "auto", deepseek_available |-> FALSE,
              qwen_available |-> FALSE]
    /\ trace = <<>>
    /\ ret = NoRet
    /\ pq = NoQuery

\* DefaultApi with the preference order reversed
DefaultApi_PrefersQwen(ds_available, qw_available) ==
    IF qw_available THEN "qwen"
    ELSE IF ds_available THEN "deepseek"
    ELSE "none"

\* lines 85-91: the default API, "none" when the constructor raises
DefaultApi(ds_available, qw_available) ==
    IF ds_available THEN "deepseek"
    ELSE IF qw_available THEN "qwen"
    ELSE "none"

\* LLMAdapter.__init__; client_ok is whether OpenAI(...) returns
Construct ==
    /\ pc = "new"
    /\ \E client_ok \in BOOLEAN :
        LET ds == Truthy(config.deepseek_api_key) /\ client_ok
            qw == Truthy(config.qwen_api_key)
            sel == DefaultApi(ds, qw)
        IN  /\ deepseek_client' = IF ds THEN "OpenAI" ELSE "None"
            /\ deepseek_available' = ds
            /\ qwen_available' = qw
            /\ IF sel = "none"
               THEN /\ current_api' = "auto"
                    /\ pc' = "failed"
                    /\ ret' = RetRaise(NoApiInitError)
               ELSE /\ current_api' = sel
                    /\ pc' = "idle"
                    /\ ret' = RetText(<<>>)
    /\ op' = "construct"
    /\ pre' = Snapshot
    /\ UNCHANGED <<config, arg, trace, pq>>

----------------------------------------------------------------------------
(* set_api *)

ApiNames == {"deepseek", "qwen", "auto", "other"}

\* SetApiChoice without the availability test for a named provider
SetApiChoice_Unchecked(api_name, ds_available, qw_available) ==
    IF api_name = "deepseek" THEN "deepseek"
    ELSE IF api_name = "qwen" THEN "qwen"
    ELSE IF api_name = "auto"
         THEN IF ds_available THEN "deepseek"
              ELSE IF qw_available THEN "qwen"
              ELSE "none"
    ELSE "none"

\* LLMAdapter.set_api: the selection it makes, "none" when it returns False
SetApiChoice(api_name, ds_available, qw_available) ==
    IF api_name = "deepseek" /\ ds_available THEN "deepseek"
    ELSE IF api_name = "qwen" /\ qw_available THEN "qwen"
    ELSE IF api_name = "auto"
         THEN IF ds_available THEN "deepseek"
              ELSE IF qw_available THEN "qwen"
              ELSE "none"
    ELSE "none"

\* SetApi with "auto" looking at the configured keys again
SetApi_Resets(api_name) ==
    /\ pc = "idle"
    /\ LET ds == IF api_name = "auto"
                 THEN deepseek_client = "OpenAI" ELSE deepseek_available
           qw == IF api_name = "auto"
                 THEN Truthy(config.qwen_api_key) ELSE qwen_available
           sel == SetApiChoice(api_name, ds, qw)
       IN  /\ deepseek_available' = ds
           /\ qwen_available' = qw
           /\ current_api' = IF sel = "none" THEN current_api ELSE sel
           /\ ret' = RetBool(sel # "none")
    /\ op' = "set_api"
    /\ arg' = api_name
    /\ pre' = Snapshot
    /\ pq' = NoQuery
    /\ UNCHANGED <<config, deepseek_client, pc, trace>>

\* LLMAdapter.set_api
SetApi(api_name) ==
    /\ pc = "idle"
    /\ LET sel == SetApiChoice(api_name, deepseek_available, qwen_available)
       IN  /\ current_api' = IF sel = "none" THEN current_api ELSE sel
           /\ ret' = RetBool(sel # "none")
    /\ op' = "set_api"
    /\ arg' = api_name
    /\ pre' = Snapshot
    /\ pq' = NoQuery
    /\ UNCHANGED <<config, deepseek_client, deepseek_available,
                   qwen_available, pc, trace>>

----------------------------------------------------------------------------
(* get_current_api_info *)

NameDeepSeek == <<"D","e","e","p","S","e","e","k">>
NameQwen     == <<"U+5343","U+95EE">>
NameUnknown  == <<"U+672A","U+77E5">>

\* the "name" and "available" entries of the dict returned
RetInfo(name, available) ==
    [kind |-> "return", flag |-> available, origin |-> "none", text |-> name]

\* LLMAdapter.get_current_api_info
GetCurrentApiInfo ==
    /\ pc = "idle"
    /\ ret' = IF current_api = "deepseek"
              THEN RetInfo(NameDeepSeek, deepseek_available)
              ELSE IF current_api = "qwen"
              THEN RetInfo(NameQwen, qwen_available)
              ELSE RetInfo(NameUnknown, FALSE)
    /\ op' = "get_current_api_info"
    /\ arg' = "none"
    /\ pre' = Snapshot
    /\ pq' = NoQuery
    /\ UNCHANGED <<config, current_api, deepseek_client, deepseek_available,
                   qwen_available, pc, trace>>

----------------------------------------------------------------------------
(* call_llm *)

\* Route without the availability tests
Route_IgnoresAvailability(cur, ds_available, qw_available) ==
    IF cur = "deepseek" THEN "deepseek"
    ELSE IF cur = "qwen" THEN "qwen"
    ELSE "none"

\* lines 131, 145, 159: the client call_llm delegates to, "none" when it
\* falls through to the final raise
Route(cur, ds_available, qw_available) ==
    IF cur = "deepseek" /\ ds_available THEN "deepseek"
    ELSE IF cur = "qwen" /\ qw_available THEN "qwen"
    ELSE "none"

\* a provider-client invocation that has made no attempt yet
NewInvocation(api) ==
    [api |-> api, outcomes |-> <<>>, sleeps |-> <<>>, result |-> "running",
     error |-> NoError]

\* LLMAdapter.call_llm up to the call of the provider client, for a call
\* made by operation
BeginCall(operation) ==
    /\ pre' = Snapshot
    /\ LET api == Route(current_api, deepseek_available, qwen_available)
       IN  IF api # "none"
           THEN /\ trace' = <<NewInvocation(api)>>
                /\ pc' = "client"
                /\ ret' = NoRet
           ELSE /\ trace' = <<>>
                /\ pc' = ReturnPc(operation)
                /\ ret' = RetRaise(NoApiError)
    /\ UNCHANGED <<config, current_api, deepseek_client, deepseek_available,
                   qwen_available>>

\* call_llm called on the adapter directly
CallLLM ==
    /\ pc = "idle"
    /\ op' = "call_llm"
    /\ arg' = "none"
    /\ pq' = NoQuery
    /\ BeginCall("call_llm")

\* OnClientError without the assignment to current_api (lines 141, 155)
OnClientError_NoSwitch(api, depth, e, other_available) ==
    IF depth = 1 /\ IsRateLimitError(e.msg)
    THEN [mark   |-> TRUE,
          select |-> "none",
          call   |-> IF other_available THEN Other(api) ELSE "none",
          raise  |-> e]
    ELSE [mark |-> FALSE, select |-> "none", call |-> "none", raise |-> e]

\* OnClientError failing over on every failure (no test of the description)
OnClientError_AnyFailure(api, depth, e, other_available) ==
    IF depth = 1
    THEN [mark   |-> TRUE,
          select |-> IF other_available THEN Other(api) ELSE "none",
          call   |-> IF other_available THEN Other(api) ELSE "none",
          raise  |-> e]
    ELSE [mark |-> FALSE, select |-> "none", call |-> "none", raise |-> e]

\* OnClientError raising the no-API error when there is nothing to fail over to
OnClientError_NoApiRaise(api, depth, e, other_available) ==
    IF depth = 1 /\ IsRateLimitError(e.msg)
    THEN [mark   |-> TRUE,
          select |-> IF other_available THEN Other(api) ELSE "none",
          call   |-> IF other_available THEN Other(api) ELSE "none",
          raise  |-> IF other_available THEN e ELSE NoApiError]
    ELSE [mark |-> FALSE, select |-> "none", call |-> "none", raise |-> e]

\* OnClientError as a handler that also wraps the fallback call and does not
\* test the other provider's flag
OnClientError_Again(api, depth, e, other_available) ==
    IF IsRateLimitError(e.msg)
    THEN [mark |-> TRUE, select |-> Other(api), call |-> Other(api),
          raise |-> e]
    ELSE [mark |-> FALSE, select |-> "none", call |-> "none", raise |-> e]

\* OnClientError with a handler around the fallback call that marks the
\* fallback provider
OnClientError_MarksFallback(api, depth, e, other_available) ==
    IF IsRateLimitError(e.msg)
    THEN [mark   |-> TRUE,
          select |-> IF depth = 1 /\ other_available THEN Other(api)
                     ELSE "none",
          call   |-> IF depth = 1 /\ other_available THEN Other(api)
                     ELSE "none",
          raise  |-> e]
    ELSE [mark |-> FALSE, select |-> "none", call |-> "none", raise |-> e]

\* the except blocks of call_llm (lines 134-143, 148-157) for a failure e of
\* the client of api; depth 1 is the call in the try block, depth 2 the call
\* made from inside the except block, whose failure no handler catches
OnClientError(api, depth, e, other_available) ==
    IF depth = 1 /\ IsRateLimitError(e.msg)
    THEN [mark   |-> TRUE,
          select |-> IF other_available THEN Other(api) ELSE "none",
          call   |-> IF other_available THEN Other(api) ELSE "none",
          raise  |-> e]
    ELSE [mark |-> FALSE, select |-> "none", call |-> "none", raise |-> e]

\* the provider client of the last invocation of tr raises e into call_llm
ClientRaises(tr0, e) ==
    LET tr == [tr0 EXCEPT ![Len(tr0)].result = "raised",
                          ![Len(tr0)].error = e]
        api == tr[Len(tr)].api
        d == OnClientError(api, Len(tr), e, Available(Other(api)))
    IN  /\ deepseek_available' =
              IF d.mark /\ api = "deepseek" THEN FALSE ELSE deepseek_available
        /\ qwen_available' =
              IF d.mark /\ api = "qwen" THEN FALSE ELSE qwen_available
        /\ current_api' = IF d.select # "none" THEN d.select ELSE current_api
        /\ IF d.call # "none"
           THEN /\ trace' = Append(tr, NewInvocation(d.call))
                /\ pc' = "client"
                /\ ret' = NoRet
           ELSE /\ trace' = tr
                /\ pc' = ReturnPc(op)
                /\ ret' = RetRaise(d.raise)
        /\ UNCHANGED <<config, deepseek_client, op, arg, pre>>

----------------------------------------------------------------------------
(* _call_deepseek_api and _call_qwen_api *)

\* the running invocation and the index of its next attempt
Running == trace[Len(trace)]
Attempt == Len(Running.outcomes)

\* ShouldRetry that also sleeps after the last attempt
ShouldRetry_AfterLast(attempt, max_retries) == attempt < max_retries

\* ShouldRetry of a client that raises its first failure
ShouldRetry_Never(attempt, max_retries) == FALSE

\* lines 173, 204: whether the client sleeps and tries again
ShouldRetry(attempt, max_retries) == attempt < max_retries - 1

\* lines 174, 205: the length of the sleep
Backoff(attempt) == 2 ^ attempt

\* RaisedError keeping the failure of the first attempt
RaisedError_First(outcomes) == BackendError(outcomes[1].text)

\* lines 177, 208: the exception the client raises after its attempts failed
RaisedError(outcomes) == BackendError(outcomes[Len(outcomes)].text)

\* the log of the running invocation after one more attempt
Record(tr, outcome, sleeps) ==
    [tr EXCEPT ![Len(tr)].outcomes = Append(@, outcome),
               ![Len(tr)].sleeps = @ \o sleeps,
               ![Len(tr)].result = IF outcome.ok THEN "returned" ELSE @]

\* the texts a backend answers with: every one of Responses to the first
\* request of a query, whose answer is parsed; one without and one with the
\* marker to a request whose answer is only passed on
ResponsesAt(phase) ==
    IF phase = "initial" THEN Responses ELSE {RespA, RespCall}

\* the failures a backend answers with: every one of BackendFailures to a
\* call_llm made on the adapter directly; one with and one without a
\* rate-limit signature to the requests of a query
FailuresAt(phase) ==
    IF phase = "none" THEN BackendFailures ELSE {FailRateLimit, FailTimeout}

\* an attempt returns the response's text (lines 164-170, 193-201)
AttemptSucceeds ==
    /\ pc = "client"
    /\ Attempt < config.max_retries
    /\ \E text \in ResponsesAt(pq.phase) :
        /\ trace' = Record(trace, [ok |-> TRUE, text |-> text], <<>>)
        /\ ret' = RetText(text)
    /\ pc' = ReturnPc(op)
    /\ pq' = CountAttempt
    /\ UNCHANGED <<config, current_api, deepseek_client, deepseek_available,
                   qwen_available, op, arg, pre>>

\* an attempt fails and the client sleeps before the next one
AttemptFailsRetry ==
    /\ pc = "client"
    /\ Attempt < config.max_retries
    /\ ShouldRetry(Attempt, config.max_retries)
    /\ \E msg \in FailuresAt(pq.phase) :
        trace' = Record(trace, [ok |-> FALSE, text |-> msg],
                        <<Backoff(Attempt)>>)
    /\ pq' = CountAttempt
    /\ UNCHANGED <<config, current_api, deepseek_client, deepseek_available,
                   qwen_available, pc, op, arg, pre, ret>>

\* an attempt fails and the client re-raises its failure
AttemptFailsFinal ==
    /\ pc = "client"
    /\ Attempt < config.max_retries
    /\ ~ShouldRetry(Attempt, config.max_retries)
    /\ \E msg \in FailuresAt(pq.phase) :
        LET tr == Record(trace, [ok |-> FALSE, text |-> msg], <<>>)
        IN  ClientRaises(tr, RaisedError(tr[Len(tr)].outcomes))
    /\ pq' = CountAttempt

\* the loop ends without a return or a raise (lines 178, 209)
RetriesExhausted ==
    /\ pc = "client"
    /\ Attempt >= config.max_retries
    /\ ClientRaises(trace, ExhaustedError(Running.api))
    /\ UNCHANGED pq

----------------------------------------------------------------------------
(* process_query *)

\* IsCall taking every parser result for a call
IsCall_Always(function_call) == TRUE

\* line 273: if function_call
IsCall(function_call) == function_call.truthy

\* OnQueryError letting the exception escape
OnQueryError_Reraises(e) == RetRaise(e)

\* lines 288-290: what process_query returns for the exception e
OnQueryError(e) == RetText(MsgApology \o e.msg)

\* _parse_function_call and _execute_function on each response, computed
\* once: whether the marker is found, the text given to json.loads, the
\* parsed call, and how _execute_function ends on it
Calls ==
    [response \in Responses |->
        [triggered |-> Contains(response, Marker),
         func_call_str |-> IF Contains(response, Marker)
                           THEN FuncCallStr(response) ELSE <<>>,
         function_call |-> ParseFunctionCall(response),
         execution |-> ExecuteFunction(ParseFunctionCall(response))]]

\* the record after _parse_function_call on the first response
Parsed(response) ==
    [pq EXCEPT !.response = response,
               !.triggered = Calls[response].triggered,
               !.func_call_str = Calls[response].func_call_str,
               !.function_call = Calls[response].function_call]

\* process_query up to the first call_llm (lines 263-269)
ProcessQuery ==
    /\ pc = "idle"
    /\ op' = "process_query"
    /\ arg' = "none"
    /\ pq' = [NoQuery EXCEPT !.phase = "initial",
                             !.requests = <<Messages(InitialPrompt(UserQuery))>>,
                             !.calls = 1]
    /\ BeginCall("process_query")

\* the first response holds no call and is the answer (lines 271, 286-287)
AgentAnswers ==
    /\ pc = "agent"
    /\ pq.phase = "initial"
    /\ ret.kind = "return"
    /\ ~IsCall(Calls[ret.text].function_call)
    /\ pq' = [Parsed(ret.text) EXCEPT !.phase = "done"]
    /\ ret' = RetText(ret.text)
    /\ pc' = "idle"
    /\ UNCHANGED <<config, current_api, deepseek_client, deepseek_available,
                   qwen_available, op, arg, pre, trace>>

\* the first response holds a call: _execute_function, then the second
\* call_llm, or the except block when _execute_function raises
\* (lines 271-283, 288-290)
AgentExecutes ==
    /\ pc = "agent"
    /\ pq.phase = "initial"
    /\ ret.kind = "return"
    /\ IsCall(Calls[ret.text].function_call)
    /\ LET function_call == Calls[ret.text].function_call
           ex == Calls[ret.text].execution
       IN  IF ex.raised
           THEN /\ pq' = [Parsed(ret.text) EXCEPT !.executes = 1,
                                                  !.error = ex.error,
                                                  !.phase = "done"]
                /\ ret' = OnQueryError(ex.error)
                /\ pc' = "idle"
                /\ UNCHANGED <<config, current_api, deepseek_client,
                               deepseek_available, qwen_available, pre,
                               trace>>
           ELSE /\ pq' = [Parsed(ret.text) EXCEPT
                              !.executes = 1,
                              !.entered = ex.entered,
                              !.function_result = ex.result,
                              !.requests = Append(@, Messages(
                                  FollowUpPrompt(UserQuery, function_call,
                                                 ex.result))),
                              !.calls = 2,
                              !.phase = "follow_up"]
                /\ BeginCall("process_query")
    /\ UNCHANGED <<op, arg>>

\* AgentReturnsFinal of an agent that asks the model again while the
\* response holds a call
AgentReturnsFinal_AsksAgain ==
    /\ pc = "agent"
    /\ pq.phase = "follow_up"
    /\ ret.kind = "return"
    /\ IF IsCall(Calls[ret.text].function_call)
       THEN /\ pq' = [pq EXCEPT !.calls = @ + 1,
                                !.requests = Append(@, Messages(
                                    FollowUpPrompt(UserQuery, pq.function_call,
                                                   pq.function_result)))]
            /\ BeginCall("process_query")
            /\ UNCHANGED <<op, arg>>
       ELSE /\ pq' = [pq EXCEPT !.phase = "done"]
            /\ ret' = RetText(ret.text)
            /\ pc' = "idle"
            /\ UNCHANGED <<config, current_api, deepseek_client,
                           deepseek_available, qwen_available, op, arg, pre,
                           trace>>

\* the second response is the answer (lines 283-285)
AgentReturnsFinal ==
    /\ pc = "agent"
    /\ pq.phase = "follow_up"
    /\ ret.kind = "return"
    /\ pq' = [pq EXCEPT !.phase = "done"]
    /\ ret' = RetText(ret.text)
    /\ pc' = "idle"
    /\ UNCHANGED <<config, current_api, deepseek_client, deepseek_available,
                   qwen_available, op, arg, pre, trace>>

\* call_llm raised: the except block (lines 288-290)
AgentCatches ==
    /\ pc = "agent"
    /\ ret.kind = "raise"
    /\ LET e == [origin |-> ret.origin, msg |-> ret.text]
       IN  /\ pq' = [pq EXCEPT !.error = e, !.phase = "done"]
           /\ ret' = OnQueryError(e)
    /\ pc' = "idle"
    /\ UNCHANGED <<config, current_api, deepseek_client, deepseek_available,
                   qwen_available, op, arg, pre, trace>>

----------------------------------------------------------------------------
(* Specification *)

Next ==
    \/ Construct
    \/ \E api_name \in ApiNames : SetApi(api_name)
    \/ GetCurrentApiInfo
    \/ CallLLM
    \/ AttemptSucceeds
    \/ AttemptFailsRetry
    \/ AttemptFailsFinal
    \/ RetriesExhausted
    \/ ProcessQuery
    \/ AgentAnswers
    \/ AgentExecutes
    \/ AgentReturnsFinal
    \/ AgentCatches

Spec == Init /\ [][Next]_vars

\* A provider client on its own: call_llm has just delegated to the client of
\* the only available provider, for every max_retries up to MaxClientRetries.
InitClient ==
    /\ \E api \in Providers, n \in 0..MaxClientRetries :
        /\ config = [deepseek_api_key |-> IF api = "deepseek" THEN " " ELSE "",
                     qwen_api_key |-> IF api = "qwen" THEN " " ELSE "",
                     max_retries |-> n]
        /\ current_api = api
        /\ deepseek_client = IF api = "deepseek" THEN "OpenAI" ELSE "None"
        /\ deepseek_available = (api = "deepseek")
        /\ qwen_available = (api = "qwen")
        /\ trace = <<NewInvocation(api)>>
    /\ pc = "client"
    /\ op = "call_llm"
    /\ arg = "none"
    /\ pre = Snapshot
    /\ ret = NoRet
    /\ pq = NoQuery

NextClient ==
    \/ AttemptSucceeds
    \/ AttemptFailsRetry
    \/ AttemptFailsFinal
    \/ RetriesExhausted

SpecClient == InitClient /\ [][NextClient]_vars

\* the steps of one process_query after its first call_llm has started
QueryStep ==
    \/ AttemptSucceeds
    \/ AttemptFailsRetry
    \/ AttemptFailsFinal
    \/ RetriesExhausted
    \/ AgentAnswers
    \/ AgentExecutes
    \/ AgentReturnsFinal
    \/ AgentCatches

NextQuery ==
    \/ Construct
    \/ ProcessQuery
    \/ QueryStep

\* An agent that is only sent queries. process_query runs in the caller's
\* thread (requests and time.sleep block, nothing else is waited for), so a
\* step of a running query that can be taken is taken.
SpecQuery == Init /\ [][NextQuery]_vars /\ WF_vars(QueryStep)

----------------------------------------------------------------------------
(* Properties *)

\* the failure descriptions that contain one of the four markers, listed
HasRateLimitSignature(msg) ==
    msg \in {FailRateLimit, FailQuota, FailExceeded, Fail429}

Constructed == pc \in {"idle", "client", "agent"}
CallDone == pc = "idle" /\ op = "call_llm"
QueryRunning == op = "process_query" /\ pc \in {"client", "agent"}
QueryDone == op = "process_query" /\ pc = "idle"

\* the call of the provider that was active when call_llm started has raised
ActiveFailed ==
    /\ op = "call_llm"
    /\ Len(trace) >= 1
    /\ trace[1].result = "raised"

\* C1: once constructed, the selection is a provider whose available flag is
\* true unless no provider is available, and then every call_llm fails.
C1_SelectionAvailable ==
    Constructed =>
        /\ (deepseek_available \/ qwen_available) =>
               /\ current_api \in Providers
               /\ Available(current_api)
        /\ (CallDone /\ ~pre.deepseek_available /\ ~pre.qwen_available) =>
               ret.kind = "raise"

\* C1 witness: a call_llm has moved the selection off a provider it marked
\* unavailable.
C1_Witness ==
    /\ CallDone
    /\ pre.current_api = "deepseek"
    /\ ~deepseek_available
    /\ current_api = "qwen"
    /\ qwen_available

\* C2 (within the call): a rate-limit failure of the active provider with the
\* other one available marks the active one unavailable, selects the other
\* and invokes the other's client, once, and no client besides.
C2_FailoverOnce ==
    (/\ ActiveFailed
     /\ HasRateLimitSignature(trace[1].error.msg)
     /\ PreAvailable(Other(trace[1].api))) =>
        /\ ~Available(trace[1].api)
        /\ current_api = Other(trace[1].api)
        /\ Len(trace) = 2
        /\ trace[2].api = Other(trace[1].api)

\* C2 (afterwards): while a provider is unavailable and the other is selected,
\* no step changes the selection and every client invocation that starts is
\* one of the selected provider.
C2_StaysSwitched ==
    \A p \in Providers :
        (Constructed /\ ~Available(p) /\ current_api = Other(p)) =>
            /\ current_api' = Other(p)
            /\ (/\ Len(trace') >= 1
                /\ \/ Len(trace') > Len(trace)
                   \/ (pc \in {"idle", "agent"} /\ pc' = "client")) =>
                   trace'[Len(trace')].api = Other(p)

\* C2: on a rate-limit failure of the active provider with the other one
\* available, call_llm marks the active one unavailable, switches to the
\* other, retries exactly once against it, and later calls stay on it.
C2_Failover == [](C2_FailoverOnce) /\ [][C2_StaysSwitched]_vars

\* C2 witness: after a failover from qwen to deepseek, a later call_llm has
\* gone to deepseek alone.
C2_Witness ==
    /\ CallDone
    /\ Truthy(config.qwen_api_key)
    /\ pre.current_api = "deepseek"
    /\ ~pre.qwen_available
    /\ Len(trace) = 1
    /\ trace[1].api = "deepseek"

\* C3: call_llm with both providers unavailable, or with the selected one
\* unavailable, raises the no-API error, invokes no client and changes
\* neither the selection nor a flag.
C3_NoProvider ==
    (/\ op = "call_llm"
     /\ \/ ~pre.deepseek_available /\ ~pre.qwen_available
        \/ pre.current_api \notin Providers
        \/ ~PreAvailable(pre.current_api)) =>
        /\ pc = "idle"
        /\ trace = <<>>
        /\ ret = RetRaise(NoApiError)
        /\ Snapshot = pre

\* C3 witness: a call_llm was made with no provider available.
C3_Witness ==
    /\ CallDone
    /\ ~pre.deepseek_available
    /\ ~pre.qwen_available
    /\ ret.kind = "raise"

\* C4: a failure of the active provider without rate-limit signature is
\* re-raised; selection and flags are as before the call and the other
\* provider's client is not invoked.
C4_OtherFailure ==
    (ActiveFailed /\ ~HasRateLimitSignature(trace[1].error.msg)) =>
        /\ pc = "idle"
        /\ Len(trace) = 1
        /\ ret = RetRaise(trace[1].error)
        /\ Snapshot = pre

\* C4 witness: the active provider timed out while the other was available.
C4_Witness ==
    /\ CallDone
    /\ ActiveFailed
    /\ trace[1].error.msg = FailTimeout
    /\ PreAvailable(Other(trace[1].api))

\* C5: a rate-limit failure of the active provider with the other one
\* unavailable marks the active one unavailable, invokes no other client,
\* keeps the selection and re-raises that failure.
C5_NoFallback ==
    (/\ ActiveFailed
     /\ HasRateLimitSignature(trace[1].error.msg)
     /\ ~PreAvailable(Other(trace[1].api))) =>
        /\ pc = "idle"
        /\ Len(trace) = 1
        /\ ~Available(trace[1].api)
        /\ ~Available(Other(trace[1].api))
        /\ current_api = pre.current_api
        /\ ret = RetRaise(trace[1].error)
        /\ ret.origin = "backend"

\* C5 witness: the only available provider failed rate-limited.
C5_Witness ==
    /\ CallDone
    /\ ActiveFailed
    /\ HasRateLimitSignature(trace[1].error.msg)
    /\ ~PreAvailable(Other(trace[1].api))
    /\ ret.kind = "raise"

\* C6: one call_llm invokes each provider's client at most once, and a
\* failure of the fallback is raised to the caller with no further
\* invocation and no switch back.
C6_SingleHop ==
    op = "call_llm" =>
        /\ Len(trace) <= 2
        /\ Len(trace) = 2 => trace[1].api # trace[2].api
        /\ (Len(trace) = 2 /\ trace[2].result = "raised") =>
               /\ pc = "idle"
               /\ ret = RetRaise(trace[2].error)
               /\ current_api = trace[2].api

\* C6 witness: the fallback failed rate-limited in the call that failed over.
C6_Witness ==
    /\ CallDone
    /\ Len(trace) = 2
    /\ trace[2].result = "raised"
    /\ HasRateLimitSignature(trace[2].error.msg)

\* C7: with max_retries = n >= 1 a client makes at most n attempts, sleeps
\* 2^i after the failed attempt i unless it was the last of the n, raises
\* after n failures (n attempts, n-1 sleeps), and a successful attempt ends
\* the invocation with its text returned.
C7_RetryBackoff ==
    \A i \in 1..Len(trace) :
        LET inv == trace[i]
            n == config.max_retries
            k == Len(inv.outcomes)
        IN  n >= 1 =>
            /\ k <= n
            /\ \A j \in 1..Len(inv.sleeps) : inv.sleeps[j] = 2 ^ (j - 1)
            /\ \A j \in 1..(k - 1) : ~inv.outcomes[j].ok
            /\ inv.result = "running" => k < n /\ Len(inv.sleeps) = k
            /\ inv.result = "raised" =>
                   /\ k = n
                   /\ ~inv.outcomes[k].ok
                   /\ Len(inv.sleeps) = n - 1
            /\ inv.result = "returned" =>
                   /\ k >= 1
                   /\ inv.outcomes[k].ok
                   /\ Len(inv.sleeps) = k - 1
                   /\ i = Len(trace)
                   /\ op = "call_llm" =>
                          pc = "idle" /\ ret = RetText(inv.outcomes[k].text)
            /\ (k = n /\ ~inv.outcomes[k].ok) => inv.result = "raised"

\* C7 witness: a client with max_retries >= 3 has failed every attempt.
C7_Witness ==
    /\ config.max_retries >= 3
    /\ Len(trace) = 1
    /\ trace[1].result = "raised"
    /\ Len(trace[1].outcomes) = config.max_retries
    /\ Len(trace[1].sleeps) = config.max_retries - 1

\* C8 as stated: when every attempt of a client fails, the client raises a
\* retries-exhausted error.
C8_Original ==
    \A i \in 1..Len(trace) :
        (trace[i].result = "raised" /\ Len(trace[i].outcomes) >= 1) =>
            trace[i].error.origin = "exhausted"

\* C8 amended: when every attempt of a client fails, the client raises the
\* failure of its last attempt itself; the retries-exhausted error is raised
\* only by a client that made no attempt.
C8_RaisesLastFailure ==
    \A i \in 1..Len(trace) :
        trace[i].result = "raised" =>
            IF Len(trace[i].outcomes) >= 1
            THEN trace[i].error =
                     BackendError(trace[i].outcomes[Len(trace[i].outcomes)].text)
            ELSE /\ config.max_retries = 0
                 /\ trace[i].error = ExhaustedError(trace[i].api)

\* C8 witness: a client raised after attempts that failed differently.
C8_Witness ==
    /\ Len(trace) >= 1
    /\ trace[1].result = "raised"
    /\ Len(trace[1].outcomes) >= 2
    /\ trace[1].outcomes[1].text # trace[1].outcomes[Len(trace[1].outcomes)].text

\* C9: the constructor selects deepseek whenever deepseek is available, qwen
\* only when deepseek is not and qwen is, and raises when neither is; a
\* constructed adapter's selection is never "auto".
C9_InitialSelection ==
    /\ op = "construct" =>
        /\ deepseek_available => pc = "idle" /\ current_api = "deepseek"
        /\ (~deepseek_available /\ qwen_available) =>
               pc = "idle" /\ current_api = "qwen"
        /\ (~deepseek_available /\ ~qwen_available) =>
               pc = "failed" /\ ret = RetRaise(NoApiInitError)
    /\ Constructed => current_api \in Providers

\* C9 witness: constructed with both providers available.
C9_Witness ==
    /\ op = "construct"
    /\ deepseek_available
    /\ qwen_available
    /\ current_api = "deepseek"

\* what C10 says set_api(arg) selects on the flags before the call
C10_Expected ==
    IF arg \in Providers
    THEN IF PreAvailable(arg) THEN arg ELSE "none"
    ELSE IF arg = "auto"
         THEN IF pre.deepseek_available THEN "deepseek"
              ELSE IF pre.qwen_available THEN "qwen"
              ELSE "none"
    ELSE "none"

\* C10: set_api returns (never raises), True exactly when the target is an
\* available provider or "auto" with some provider available; on True the
\* selection is that provider, on False it is unchanged; flags never change.
C10_SetApi ==
    op = "set_api" =>
        /\ ret.kind = "return"
        /\ ret.flag = (C10_Expected # "none")
        /\ ret.flag => current_api = C10_Expected
        /\ ~ret.flag => current_api = pre.current_api
        /\ deepseek_available = pre.deepseek_available
        /\ qwen_available = pre.qwen_available

\* C10 witness: set_api refused an unavailable provider while another was
\* selected.
C10_Witness ==
    /\ op = "set_api"
    /\ arg \in Providers
    /\ ~PreAvailable(arg)
    /\ pre.current_api = Other(arg)
    /\ ~ret.flag

\* C11: process_query never raises. Whatever the responses and whichever of
\* call_llm, the parser or _execute_function fails, it returns a text; when a
\* call_llm raised, or _execute_function raised, that text is the apology
\* followed by the failure's description.
C11_NeverRaises ==
    /\ QueryRunning => pq.phase # "done"
    /\ QueryDone =>
        /\ pq.phase = "done"
        /\ ret.kind = "return"
        /\ (trace = <<>>) => ret.text = MsgApology \o MsgNoApi
        /\ (trace # <<>> /\ trace[Len(trace)].result = "raised") =>
               ret.text = MsgApology \o trace[Len(trace)].error.msg
        /\ (pq.calls = 1 /\ pq.function_call.kind = "list") =>
               ret.text = MsgApology \o MsgNoGet
        /\ (pq.calls = 1 /\ pq.function_call.name.kind = "list") =>
               ret.text = MsgApology \o MsgUnhashable
        /\ pq.error # NoError => ret.text = MsgApology \o pq.error.msg

\* C11 witness: the second call_llm of a query raised a backend failure and
\* the query returned the apology.
C11_Witness ==
    /\ QueryDone
    /\ pq.calls = 2
    /\ pq.error.origin = "backend"
    /\ ret.kind = "return"

\* first responses that hold a JSON call of get_weather with its city
\* argument, and what get_weather returns for that city
WellFormedCalls == {RespCall, RespCallNextLine, RespTwoMarkers}
ExpectedWeather(response) ==
    IF response = RespCall THEN WeatherBeijing
    ELSE IF response = RespCallNextLine THEN WeatherShenzhen
    ELSE WeatherUnavailable

\* the text the last provider client returned
LastReturned == trace[Len(trace)].outcomes[Len(trace[Len(trace)].outcomes)].text

\* C12: when the first response holds a well-formed call of the registered
\* function, process_query runs _execute_function once, which enters
\* get_weather once, makes two call_llm calls with one user message each (the
\* second built from the function's result), and when the second call
\* returns, returns its response as it is, with nothing more executed.
C12_CallFlow ==
    (op = "process_query" /\ pq.response \in WellFormedCalls) =>
        /\ pq.executes = 1
        /\ pq.entered = 1
        /\ pq.function_result = ExpectedWeather(pq.response)
        /\ pq.calls = 2
        /\ Len(pq.requests) = 2
        /\ \A i \in 1..2 :
               /\ Len(pq.requests[i]) = 1
               /\ pq.requests[i][1].role = "user"
        /\ pq.requests[1][1].content.prompt = "initial"
        /\ pq.requests[2][1].content.function_result = pq.function_result
        /\ (QueryDone /\ trace # <<>>
              /\ trace[Len(trace)].result = "returned") =>
               ret = RetText(LastReturned)

\* C12 witness: the second response itself held a call, and was returned
\* after one execution and two calls.
C12_Witness ==
    /\ QueryDone
    /\ pq.response = RespCall
    /\ trace[Len(trace)].result = "returned"
    /\ LastReturned = RespCall
    /\ ret.text = RespCall
    /\ pq.executes = 1
    /\ pq.calls = 2

\* the first call_llm of the query returned and its response was parsed
FirstParsed == op = "process_query" /\ pq.response # <<>>

\* C13: when the parser returns None for the first response (no marker, or
\* a payload that is not JSON), and also when it returns the empty object,
\* process_query returns the first response as it is, after one call_llm
\* and no _execute_function.
C13_NoCall ==
    /\ (FirstParsed /\ pq.response \in {RespA, RespB, RespLowerMarker,
                                         RespMalformed}) =>
           pq.function_call = PyNone
    /\ (FirstParsed /\ \/ pq.function_call.kind = "None"
                       \/ pq.function_call = PyDict(0, NoName, NoArgs)) =>
        /\ QueryDone
        /\ ret = RetText(pq.response)
        /\ ret.text = LastReturned
        /\ pq.calls = 1
        /\ Len(pq.requests) = 1
        /\ pq.executes = 0
        /\ pq.entered = 0
        /\ pq.error = NoError

\* C13 witness: a response with the marker in lower case was returned as
\* the answer.
C13_Witness ==
    /\ QueryDone
    /\ pq.response = RespLowerMarker
    /\ pq.function_call.kind = "None"
    /\ ret.text = RespLowerMarker

\* C14: on a payload that is not JSON, that is a JSON object without "name"
\* and "arguments", or that is not a JSON object, the parser returns None and
\* process_query returns the first response as it is, executes nothing and
\* makes no second call_llm.
C14_ParseFailureIsProse ==
    (FirstParsed /\ pq.response \in {RespMalformed, RespNoFields, RespList}) =>
        /\ pq.function_call = PyNone
        /\ QueryDone
        /\ ret = RetText(pq.response)
        /\ pq.executes = 0
        /\ pq.calls = 1

\* C15 as stated: the parser triggers exactly on the marker, and the payload
\* is the text after the marker up to the first line break after the marker
\* (here: up to surrounding blanks), so a marker followed at once by a line
\* break gives no call.
C15_Original ==
    FirstParsed =>
        /\ pq.triggered = Contains(pq.response, Marker)
        /\ pq.triggered =>
               pq.func_call_str =
                   Strip(SplitHead(SplitRest(pq.response, Marker), Newline))
        /\ pq.response = RespCallNextLine => pq.function_call = PyNone

\* the payload of each response with the marker, as lines 236-237 of the
\* source compute it
C15_Expected(response) ==
    CASE response = RespCall -> JsonCallBeijing
      [] response = RespCallNextLine -> JsonCallShenzhen
      [] response = RespTwoMarkers -> JsonCallParis
      [] response = RespUnknownFn -> JsonCallTime
      [] response = RespWrongArg -> JsonCallTown
      [] response = RespMissingArg -> JsonCallNoArgs
      [] response = RespNoFields -> JsonNoFields
      [] response = RespList -> JsonList
      [] response = RespMalformed -> JsonMalformed
      [] response = RespEmptyDict -> JsonEmptyDict
      [] response = RespListName -> JsonListName
      [] OTHER -> <<>>

\* C15 amended: the parser triggers exactly when the marker, in upper case,
\* is in the response; the payload is the first line of what lies between
\* the first marker and the next marker (or the end) after blanks and line
\* breaks around it are stripped. Text before the marker and later lines
\* are dropped, and a payload on the line after the marker is a call.
C15_Payload ==
    FirstParsed =>
        /\ pq.triggered = (pq.response \notin {RespA, RespB, RespLowerMarker})
        /\ pq.func_call_str = C15_Expected(pq.response)
        /\ ~Contains(pq.func_call_str, Newline)
        /\ ~Contains(pq.func_call_str, Marker)
        /\ pq.triggered =>
               Contains(SplitRest(pq.response, Marker), pq.func_call_str)
        /\ pq.response = RespCallNextLine =>
               /\ pq.function_call.kind = "dict"
               /\ pq.executes = 1

\* C15 witness: the call on the line after the marker was parsed and
\* executed.
C15_Witness ==
    /\ QueryDone
    /\ pq.response = RespCallNextLine
    /\ pq.func_call_str = JsonCallShenzhen
    /\ pq.function_result = WeatherShenzhen

\* the error payload _execute_function returns for each response whose call
\* names an unregistered function or does not fit get_weather's signature
C16_Expected(response) ==
    CASE response = RespUnknownFn ->
            JsonErrorOpen \o MsgUnknownFunction \o NameGetTime
                \o JsonErrorClose
      [] response = RespWrongArg ->
            JsonErrorOpen \o MsgUnexpectedKeyword \o KeyTown \o Quote
                \o JsonErrorClose
      [] response = RespMissingArg ->
            JsonErrorOpen \o MsgMissingCity \o JsonErrorClose

C17_Step ==
    Constructed =>
        \A p \in Providers :
            LET after == IF p = "deepseek" THEN deepseek_available'
                         ELSE qwen_available'
            IN  /\ ~Available(p) => ~after
                /\ (Available(p) /\ ~after) =>
                       /\ pc = "client"
                       /\ op \in {"call_llm", "process_query"}
                       /\ Len(trace) = 1
                       /\ trace[1].api = p
                       /\ pre.current_api = p
                       /\ trace'[1].result = "raised"
                       /\ HasRateLimitSignature(trace'[1].error.msg)
                       /\ Available(Other(p))' = Available(Other(p))

\* C17: availability is monotone at runtime. No call_llm, set_api,
\* get_current_api_info or process_query sets a false flag back to true, and
\* a call_llm changes only the flag of the provider selected at its start,
\* from true to false, on a rate-limited failure.
C17_Monotone == [][C17_Step]_vars

\* C17 witness: set_api("auto") on an adapter whose deepseek client exists
\* but was marked unavailable; the flag is still false.
C17_Witness ==
    /\ op = "set_api"
    /\ arg = "auto"
    /\ deepseek_client = "OpenAI"
    /\ ~deepseek_available
    /\ ~pre.deepseek_available
    /\ current_api = "qwen"
    /\ ret.flag

\* the fallback's client, called during a failover, raised a failure with a
\* rate-limit signature
FallbackRateLimited ==
    /\ op \in {"call_llm", "process_query"}
    /\ Len(trace) = 2
    /\ trace[2].result = "raised"
    /\ HasRateLimitSignature(trace[2].error.msg)

\* C18 (after the call): the first provider is unavailable, the fallback is
\* still available and selected, and its failure is what call_llm raised.
C18_NotMarked ==
    FallbackRateLimited =>
        /\ ~Available(trace[1].api)
        /\ Available(trace[2].api)
        /\ current_api = trace[2].api
        /\ trace[2].api = Other(trace[1].api)
        /\ op = "call_llm" => ret = RetRaise(trace[2].error)

\* C18 (the next call): a call_llm that starts then invokes the fallback
\* provider's client.
C18_NextCall ==
    (FallbackRateLimited /\ pc = "idle"
       /\ op' \in {"call_llm", "process_query"}) =>
        /\ pc' = "client"
        /\ trace' = <<NewInvocation(trace[2].api)>>

\* C18: a rate-limit failure of the fallback provider during a failover
\* does not mark the fallback unavailable; the fallback stays selected and
\* the next call_llm goes to it.
C18_FallbackKept == [](C18_NotMarked) /\ [][C18_NextCall]_vars

\* C18 witness: deepseek failed over to qwen, qwen answered 429, and qwen is
\* still available.
C18_Witness ==
    /\ CallDone
    /\ Len(trace) = 2
    /\ trace[1].api = "deepseek"
    /\ trace[2].error.msg = Fail429
    /\ qwen_available
    /\ ~deepseek_available

\* C19: call_llm classifies the failure the client raises, which is that of
\* the last of max_retries attempts. Within a call, a changed flag or
\* selection, or a second client invocation, implies that the first client
\* made max_retries attempts and all failed; and when an earlier attempt
\* failed with a rate-limit signature but the last one without, there is no
\* failover and the provider stays available and selected.
C19_FinalFailureOnly ==
    (op \in {"call_llm", "process_query"} /\ trace # <<>>) =>
        LET first == trace[1]
            k == Len(first.outcomes)
        IN  /\ (Snapshot # pre \/ Len(trace) = 2) =>
                   /\ first.result = "raised"
                   /\ k = config.max_retries
                   /\ \A j \in 1..k : ~first.outcomes[j].ok
                   /\ k >= 1 =>
                          HasRateLimitSignature(first.outcomes[k].text)
            /\ (/\ first.result = "raised"
                /\ k >= 2
                /\ \E j \in 1..(k - 1) :
                       HasRateLimitSignature(first.outcomes[j].text)
                /\ ~HasRateLimitSignature(first.outcomes[k].text)) =>
                   /\ Len(trace) = 1
                   /\ Snapshot = pre
                   /\ current_api = first.api
                   /\ Available(first.api)
                   /\ op = "call_llm" => ret = RetRaise(first.error)

\* C19 witness: the active provider answered rate-limited and then timed
\* out while the other provider was available; nothing changed.
C19_Witness ==
    /\ CallDone
    /\ Len(trace) = 1
    /\ Len(trace[1].outcomes) = 2
    /\ trace[1].outcomes[1].text = FailRateLimit
    /\ trace[1].outcomes[2].text = FailTimeout
    /\ PreAvailable(Other(trace[1].api))
    /\ Snapshot = pre

\* the backend attempts the running or the last call_llm has made
CallAttempts ==
    IF trace = <<>> THEN 0
    ELSE IF Len(trace) = 1 THEN Len(trace[1].outcomes)
    ELSE Len(trace[1].outcomes) + Len(trace[2].outcomes)

\* C20 (resources): a process_query makes at most two call_llm calls, one
\* _execute_function call and 4 * max_retries backend attempts; each
\* call_llm makes at most 2 * max_retries attempts, max_retries on the active
\* provider and max_retries on the fallback.
C20_Bounded ==
    op = "process_query" =>
        /\ pq.calls \in 1..2
        /\ Len(pq.requests) = pq.calls
        /\ pq.executes <= 1
        /\ pq.entered <= pq.executes
        /\ pq.attempts <= 4 * config.max_retries
        /\ CallAttempts <= 2 * config.max_retries
        /\ CallAttempts <= pq.attempts
        /\ Len(trace) <= 2
        /\ \A i \in 1..Len(trace) :
               Len(trace[i].outcomes) <= config.max_retries

\* C20: every process_query terminates, whatever the providers answer,
\* within those bounds.
C20_Terminates ==
    /\ [](C20_Bounded)
    /\ QueryRunning ~> (QueryDone /\ pq.phase = "done")

\* C20 witness: a query ended after two call_llm calls, one execution and
\* three times max_retries attempts, one call having failed over.
C20_Witness ==
    /\ QueryDone
    /\ config.max_retries >= 2
    /\ pq.calls = 2
    /\ pq.executes = 1
    /\ pq.attempts = 3 * config.max_retries

====
